---- MODULE Spec2Model ----
(***************************************************************************)
(* Model of the vigenere crate: the generic engine VigenereCipher          *)
(* (src/src/core.rs) and the text wrapper StringCipher (src/src/lib.rs).   *)
(*                                                                         *)
(* A Rust string is modelled as the sequence of its chars, a char as a     *)
(* one-letter TLA+ string.  A CharElement is the record [value, index].    *)
(* Vec positions are 0-based in the source and 1-based here, so the        *)
(* source's v[i] is v[i + 1].                                              *)
(***************************************************************************)
EXTENDS Integers, Sequences, FiniteSets, TLC

VARIABLES
    charset,      \* argument of StringCipher::new
    text,         \* text argument of StringCipher::encrypt / decrypt
    key,          \* key argument of StringCipher::encrypt / decrypt
    cipher,       \* what StringCipher::new returned
    encrypted,    \* what cipher.encrypt(text, key) returned
    decrypted,    \* what cipher.decrypt(text, key) returned
    roundtrip,    \* what cipher.decrypt(&encrypted, key) returned
    echarset,     \* Vec<T> handed to NonEmptyVec / VigenereCipher::new
    einput,       \* &[T] argument of VigenereCipher::encrypt / decrypt
    ekey,         \* key slice handed to NonEmptySliceRef
    engine,       \* the VigenereCipher built from echarset
    eencrypted,   \* what engine.encrypt(einput, ekey) returned
    edecrypted,   \* what engine.decrypt(einput, ekey) returned
    eroundtrip    \* what engine.decrypt(&eencrypted, ekey) returned

tvars == <<charset, text, key, cipher, encrypted, decrypted, roundtrip>>
evars == <<echarset, einput, ekey, engine, eencrypted, edecrypted, eroundtrip>>
vars == <<charset, text, key, cipher, encrypted, decrypted, roundtrip,
          echarset, einput, ekey, engine, eencrypted, edecrypted, eroundtrip>>

----------------------------------------------------------------------------
(* Bounds of the explored inputs.                                          *)

MaxTextLen == 2

MaxKeyLen == 2

\* The chars the texts and keys are drawn from.
Alphabet == {"a", "b", "c", "x"}

\* The charset strings StringCipher::new is called on: the empty one, valid
\* ones of one to three chars, and ones with a repeated char.
Charsets ==
    { <<>>, <<"a">>, <<"a", "b">>, <<"b", "a">>, <<"a", "b", "c">>, <<"c", "a", "b">>,
      <<"a", "a">>, <<"a", "b", "a">>, <<"b", "a", "a">> }

\* All strings of at most n chars over the char set cs.
StringsOver(cs, n) == UNION {[1..k -> cs] : k \in 0..n}

\* The two cargo profiles: overflow checks on (dev) or off (release).
Builds == {"debug", "release"}

----------------------------------------------------------------------------
(* Machine arithmetic.  usize is 64 bits wide in the source; the word is   *)
(* scaled to 16 bits here, which keeps every wrap-around case.             *)

UsizeBits == 16

UsizeModulus == 2 ^ UsizeBits

UsizeMax == UsizeModulus - 1

\* a + b on usize: the wrapped value and whether the addition overflowed.
UsizeAdd(a, b) == [val |-> (a + b) % UsizeModulus, overflow |-> a + b >= UsizeModulus]

\* a - b on usize: the wrapped value and whether the subtraction went below zero.
UsizeSub(a, b) == [val |-> (a - b) % UsizeModulus, overflow |-> a < b]

Min(S) == CHOOSE m \in S : \A n \in S : m <= n

None == [tag |-> "None"]

----------------------------------------------------------------------------
(* lib.rs: CharElement.                                                    *)

CharElement_new(value, index) == [value |-> value, index |-> index]

\* charset.iter().find(|e| e.value() == c): the first element holding c.
find(elems, c) ==
    LET hits == {i \in DOMAIN elems : elems[i].value = c}
    IN  IF hits = {} THEN [some |-> FALSE]
        ELSE [some |-> TRUE, elem |-> elems[Min(hits)]]

----------------------------------------------------------------------------
(* lib.rs: StringCipher.                                                   *)

\* StringCipher::new with the repeat check comparing neighbours only.
StringCipher_new_adjacent(s) ==
    IF Len(s) = 0
    THEN [tag |-> "Err", err |-> "empty_charset"]
    ELSE IF \E i \in 1..(Len(s) - 1) : s[i] = s[i + 1]
    THEN [tag |-> "Err", err |-> "duplicate_charset"]
    ELSE LET elems == [i \in 1..Len(s) |-> CharElement_new(s[i], i - 1)]
         IN  [tag |-> "Ok", charset |-> elems, modulus |-> Len(elems)]

\* StringCipher::new numbering the symbols from one.
StringCipher_new_one_based(s) ==
    IF Len(s) = 0
    THEN [tag |-> "Err", err |-> "empty_charset"]
    ELSE IF Cardinality({s[i] : i \in DOMAIN s}) # Len(s)
    THEN [tag |-> "Err", err |-> "duplicate_charset"]
    ELSE LET elems == [i \in 1..Len(s) |-> CharElement_new(s[i], i)]
         IN  [tag |-> "Ok", charset |-> elems, modulus |-> Len(elems)]

StringCipher_new(s) ==
    IF Len(s) = 0
    THEN [tag |-> "Err", err |-> "empty_charset"]
    ELSE LET chars == s
             unique == {chars[i] : i \in DOMAIN chars}
         IN  IF Cardinality(unique) # Len(chars)
             THEN [tag |-> "Err", err |-> "duplicate_charset"]
             ELSE LET elems == [i \in 1..Len(chars) |-> CharElement_new(chars[i], i - 1)]
                  IN  [tag |-> "Ok", charset |-> elems, modulus |-> Len(elems)]

\* parse_string reporting the last char not found instead of the first.
parse_string_last(self, s) ==
    LET bad == {i \in DOMAIN s : ~find(self.charset, s[i]).some}
    IN  IF bad # {}
        THEN [tag |-> "Err", err |-> "invalid_key_char",
              ch |-> s[CHOOSE i \in bad : \A j \in bad : j <= i]]
        ELSE [tag |-> "Ok", elems |-> [i \in DOMAIN s |-> find(self.charset, s[i]).elem]]

\* Strict parse: the elements of s, or the error of the first char not found.
parse_string(self, s) ==
    LET bad == {i \in DOMAIN s : ~find(self.charset, s[i]).some}
    IN  IF bad # {}
        THEN [tag |-> "Err", err |-> "invalid_key_char", ch |-> s[Min(bad)]]
        ELSE [tag |-> "Ok", elems |-> [i \in DOMAIN s |-> find(self.charset, s[i]).elem]]

\* (elem.index() + key_elem.index()) % self.modulus
encrypt_index(elem_index, key_elem_index, modulus) ==
    LET sum == UsizeAdd(elem_index, key_elem_index)
    IN  [val |-> IF modulus = 0 THEN 0 ELSE sum.val % modulus,
         overflow |-> sum.overflow, div_by_zero |-> modulus = 0,
         raw |-> elem_index + key_elem_index]

\* decrypt's index expression with the key index added, as in encrypt.
decrypt_index_plus(elem_index, key_elem_index, modulus) ==
    LET sum == UsizeAdd(elem_index, modulus)
        tot == UsizeAdd(sum.val, key_elem_index)
    IN  [val |-> IF modulus = 0 THEN 0 ELSE tot.val % modulus,
         overflow |-> sum.overflow \/ tot.overflow, div_by_zero |-> modulus = 0,
         raw |-> sum.val + key_elem_index]

\* decrypt's index expression without the `+ self.modulus`.
decrypt_index_no_modulus(elem_index, key_elem_index, modulus) ==
    LET diff == UsizeSub(elem_index, key_elem_index)
    IN  [val |-> IF modulus = 0 THEN 0 ELSE diff.val % modulus,
         overflow |-> diff.overflow, div_by_zero |-> modulus = 0,
         raw |-> elem_index - key_elem_index]

\* (elem.index() + self.modulus - key_elem.index()) % self.modulus
decrypt_index(elem_index, key_elem_index, modulus) ==
    LET sum == UsizeAdd(elem_index, modulus)
        diff == UsizeSub(sum.val, key_elem_index)
    IN  [val |-> IF modulus = 0 THEN 0 ELSE diff.val % modulus,
         overflow |-> sum.overflow \/ diff.overflow, div_by_zero |-> modulus = 0,
         raw |-> sum.val - key_elem_index]

\* One pass-through iteration of the loop: the char is copied.
PassStep(ch, key_index) ==
    [ch |-> ch, member |-> FALSE, key_index |-> key_index, fault |-> "none", out |-> ch]

\* One in-charset iteration, given the index expression's value
\* r = [val, overflow, div_by_zero, raw]: `% self.modulus` panics on a zero
\* modulus, `self.charset[new_index]` panics out of bounds.
SymbolStep(self, ch, key_index, key_len, elem, key_elem, r) ==
    LET new_index == r.val
        base == [ch |-> ch, member |-> TRUE, key_index |-> key_index, key_len |-> key_len,
                 elem_index |-> elem.index, key_elem_index |-> key_elem.index,
                 modulus |-> self.modulus, raw |-> r.raw, new_index |-> new_index]
    IN  IF r.div_by_zero
        THEN base @@ [fault |-> "div_by_zero", out |-> ch]
        ELSE IF new_index >= Len(self.charset)
        THEN base @@ [fault |-> "out_of_bounds", out |-> ch]
        ELSE base @@ [fault |-> (IF r.overflow THEN "overflow" ELSE "none"),
                      out |-> self.charset[new_index + 1].value]

\* A loop iteration that panics before any index is computed.
FaultStep(ch, key_index, key_len, fault) ==
    [ch |-> ch, member |-> TRUE, key_index |-> key_index, key_len |-> key_len,
     fault |-> fault, out |-> ch]

\* encrypt's loop with `key_index += 1` after the if/else, so that a
\* pass-through char advances the key cursor too.
RECURSIVE encrypt_loop_always_advance(_, _, _, _, _)
encrypt_loop_always_advance(self, key_elements, chars, key_index, steps) ==
    IF chars = <<>> THEN steps
    ELSE LET ch == Head(chars)
             found == find(self.charset, ch)
             key_len == Len(key_elements)
         IN  IF ~found.some
             THEN encrypt_loop_always_advance(self, key_elements, Tail(chars), key_index + 1,
                               Append(steps, PassStep(ch, key_index)))
             ELSE LET elem == found.elem
                      key_elem == key_elements[(key_index % key_len) + 1]
                      r == encrypt_index(elem.index, key_elem.index, self.modulus)
                  IN  encrypt_loop_always_advance(self, key_elements, Tail(chars),
                                   key_index + 1,
                                   Append(steps, SymbolStep(self, ch, key_index, key_len,
                                                            elem, key_elem, r)))

\* The `for ch in plaintext.chars()` loop of encrypt, one iteration per call;
\* steps records what each iteration computed.
RECURSIVE encrypt_loop(_, _, _, _, _)
encrypt_loop(self, key_elements, chars, key_index, steps) ==
    IF chars = <<>> THEN steps
    ELSE LET ch == Head(chars)
             found == find(self.charset, ch)
             key_len == Len(key_elements)
         IN  IF ~found.some
             THEN encrypt_loop(self, key_elements, Tail(chars), key_index,
                               Append(steps, PassStep(ch, key_index)))
             ELSE IF key_len = 0
             THEN encrypt_loop(self, key_elements, Tail(chars), key_index + 1,
                               Append(steps, FaultStep(ch, key_index, key_len, "div_by_zero")))
             ELSE LET elem == found.elem
                      key_elem == key_elements[(key_index % key_len) + 1]
                      r == encrypt_index(elem.index, key_elem.index, self.modulus)
                  IN  encrypt_loop(self, key_elements, Tail(chars), key_index + 1,
                                   Append(steps, SymbolStep(self, ch, key_index, key_len,
                                                            elem, key_elem, r)))

\* The `for ch in ciphertext.chars()` loop of decrypt.
RECURSIVE decrypt_loop(_, _, _, _, _)
decrypt_loop(self, key_elements, chars, key_index, steps) ==
    IF chars = <<>> THEN steps
    ELSE LET ch == Head(chars)
             found == find(self.charset, ch)
             key_len == Len(key_elements)
         IN  IF ~found.some
             THEN decrypt_loop(self, key_elements, Tail(chars), key_index,
                               Append(steps, PassStep(ch, key_index)))
             ELSE IF key_len = 0
             THEN decrypt_loop(self, key_elements, Tail(chars), key_index + 1,
                               Append(steps, FaultStep(ch, key_index, key_len, "div_by_zero")))
             ELSE LET elem == found.elem
                      key_elem == key_elements[(key_index % key_len) + 1]
                      r == decrypt_index(elem.index, key_elem.index, self.modulus)
                  IN  decrypt_loop(self, key_elements, Tail(chars), key_index + 1,
                                   Append(steps, SymbolStep(self, ch, key_index, key_len,
                                                            elem, key_elem, r)))

\* The loop's result with `result.push(ch)` missing from the else branch:
\* pass-through chars are left out of the output.
Outcome_drop_pass(steps, build) ==
    LET kept == SelectSeq(steps, LAMBDA st : st.member)
    IN  [tag |-> "Ok", out |-> [i \in DOMAIN kept |-> kept[i].out], steps |-> steps]

\* What a finished loop returns under a build: a panic when an iteration
\* divided by zero or indexed out of bounds, or overflowed with overflow
\* checks on; the collected output otherwise.
Outcome(steps, build) ==
    LET panics == {i \in DOMAIN steps :
                      \/ steps[i].fault \in {"div_by_zero", "out_of_bounds"}
                      \/ steps[i].fault = "overflow" /\ build = "debug"}
    IN  IF panics # {}
        THEN [tag |-> "Panic", fault |-> steps[Min(panics)].fault, steps |-> steps]
        ELSE [tag |-> "Ok", out |-> [i \in DOMAIN steps |-> steps[i].out], steps |-> steps]

StringCipher_encrypt(self, plaintext, k, build) ==
    IF Len(k) = 0
    THEN [tag |-> "Err", err |-> "empty_key"]
    ELSE LET key_elements == parse_string(self, k)
         IN  IF key_elements.tag = "Err"
             THEN key_elements
             ELSE Outcome(encrypt_loop(self, key_elements.elems, plaintext, 0, <<>>), build)

StringCipher_decrypt(self, ciphertext, k, build) ==
    IF Len(k) = 0
    THEN [tag |-> "Err", err |-> "empty_key"]
    ELSE LET key_elements == parse_string(self, k)
         IN  IF key_elements.tag = "Err"
             THEN key_elements
             ELSE Outcome(decrypt_loop(self, key_elements.elems, ciphertext, 0, <<>>), build)

----------------------------------------------------------------------------
(* core.rs: VigenereCipher.                                                *)

\* NonEmptyVec::try_from_vec(v).unwrap() / NonEmptySliceRef::new(s).unwrap():
\* only a non-empty sequence passes.
NonEmpty(v) == Len(v) > 0

VigenereCipher_new(cs) == [charset |-> cs, modulus |-> Len(cs)]

\* |m, k, n| (m + k) % n
encrypt_op(m, k, n) ==
    LET sum == UsizeAdd(m, k)
    IN  [val |-> IF n = 0 THEN 0 ELSE sum.val % n, overflow |-> sum.overflow,
         div_by_zero |-> n = 0, raw |-> m + k]

\* decrypt's closure with the key index added, as in encrypt's.
decrypt_op_plus(c, k, n) ==
    LET sum == UsizeAdd(c, n)
        tot == UsizeAdd(sum.val, k)
    IN  [val |-> IF n = 0 THEN 0 ELSE tot.val % n,
         overflow |-> sum.overflow \/ tot.overflow,
         div_by_zero |-> n = 0, raw |-> sum.val + k]

\* decrypt's closure with its operands exchanged: (k + n - c) % n.
decrypt_op_swapped(c, k, n) ==
    LET sum == UsizeAdd(k, n)
        diff == UsizeSub(sum.val, c)
    IN  [val |-> IF n = 0 THEN 0 ELSE diff.val % n,
         overflow |-> sum.overflow \/ diff.overflow,
         div_by_zero |-> n = 0, raw |-> sum.val - c]

\* |c, k, n| (c + n - k) % n
decrypt_op(c, k, n) ==
    LET sum == UsizeAdd(c, n)
        diff == UsizeSub(sum.val, k)
    IN  [val |-> IF n = 0 THEN 0 ELSE diff.val % n,
         overflow |-> sum.overflow \/ diff.overflow,
         div_by_zero |-> n = 0, raw |-> sum.val - k]

\* The call of the closure handed to process; the closure is named by the
\* method that passes it.
call(operation, m, k, n) ==
    IF operation = "encrypt" THEN encrypt_op(m, k, n) ELSE decrypt_op(m, k, n)

\* input.iter().enumerate().map(..).collect(): one step per input element.
process(self, input, k, operation) ==
    [p \in DOMAIN input |->
        LET i == p - 1
            element == input[p]
            key_element == k[(i % Len(k)) + 1]
            r == call(operation, element.index, key_element.index, self.modulus)
            new_index == r.val
            base == [elem_index |-> element.index, key_elem_index |-> key_element.index,
                     raw |-> r.raw, new_index |-> new_index]
        IN  IF r.div_by_zero
            THEN base @@ [fault |-> "div_by_zero", out |-> element]
            ELSE IF new_index >= Len(self.charset)
            THEN base @@ [fault |-> "out_of_bounds", out |-> element]
            ELSE base @@ [fault |-> (IF r.overflow THEN "overflow" ELSE "none"),
                          out |-> self.charset[new_index + 1]]]

VigenereCipher_encrypt(self, plaintext, k, build) ==
    Outcome(process(self, plaintext, k, "encrypt"), build)

VigenereCipher_decrypt(self, ciphertext, k, build) ==
    Outcome(process(self, ciphertext, k, "decrypt"), build)

----------------------------------------------------------------------------
(* The calls a client makes.  The arguments are fixed by the initial       *)
(* state; each action is one call of the library on them.                  *)

\* The elements the generic engine is exercised on: the symbols of "abc" as
\* lib.rs builds them, and one carrying the largest index CharElement::new
\* accepts.
EngineElements ==
    { CharElement_new("a", 0), CharElement_new("b", 1), CharElement_new("c", 2),
      CharElement_new("x", UsizeMax) }

\* The symbol sets the engine is built from: the empty Vec, the symbols of
\* "a", "ab" and "abc" in position order, and two sets whose indices do not
\* match the positions.
EngineCharsets ==
    { <<>>,
      <<CharElement_new("a", 0)>>,
      <<CharElement_new("a", 0), CharElement_new("b", 1)>>,
      <<CharElement_new("a", 0), CharElement_new("b", 1), CharElement_new("c", 2)>>,
      <<CharElement_new("b", 1), CharElement_new("a", 0)>>,
      <<CharElement_new("a", 0), CharElement_new("x", UsizeMax)>> }

\* "..".chars().enumerate().map(|(i, c)| CharElement::new(c, i)).collect()
Symbols(s) == [i \in 1..Len(s) |-> CharElement_new(s[i], i - 1)]

\* charset[j].clone() for the j holding each char of s, as the tests pick them.
SymbolsOf(cs, s) ==
    [i \in 1..Len(s) |-> cs[Min({j \in DOMAIN cs : cs[j].value = s[i]})]]

NoTextCalls ==
    /\ cipher = None
    /\ encrypted = None
    /\ decrypted = None
    /\ roundtrip = None

NoEngineCalls ==
    /\ engine = None
    /\ eencrypted = None
    /\ edecrypted = None
    /\ eroundtrip = None

\* The text wrapper on every charset, text and key within the bounds.
Init ==
    /\ charset \in Charsets
    /\ text \in StringsOver(Alphabet, MaxTextLen)
    /\ key \in StringsOver(Alphabet, MaxKeyLen)
    /\ NoTextCalls
    /\ echarset = <<>> /\ einput = <<>> /\ ekey = <<>>
    /\ NoEngineCalls

\* The generic engine on every element sequence within the bounds.
InitEngine ==
    /\ echarset \in EngineCharsets
    /\ einput \in StringsOver(EngineElements, MaxTextLen)
    /\ ekey \in StringsOver(EngineElements, MaxKeyLen)
    /\ NoEngineCalls
    /\ charset = <<>> /\ text = <<>> /\ key = <<>>
    /\ NoTextCalls

\* Both layers on the same charset, with a text and a key over its chars.
InitAgree ==
    /\ charset \in Charsets
    /\ text \in StringsOver({charset[i] : i \in DOMAIN charset}, MaxTextLen)
    /\ key \in StringsOver({charset[i] : i \in DOMAIN charset}, MaxKeyLen)
    /\ NoTextCalls
    /\ echarset = Symbols(charset)
    /\ einput = SymbolsOf(echarset, text)
    /\ ekey = SymbolsOf(echarset, key)
    /\ NoEngineCalls

\* StringCipher::new(charset)
New ==
    /\ cipher' = StringCipher_new(charset)
    /\ UNCHANGED <<charset, text, key, encrypted, decrypted, roundtrip, evars>>

\* cipher.encrypt(text, key)
Encrypt ==
    /\ cipher.tag = "Ok"
    /\ \E build \in Builds : encrypted' = StringCipher_encrypt(cipher, text, key, build)
    /\ UNCHANGED <<charset, text, key, cipher, decrypted, roundtrip, evars>>

\* cipher.decrypt(text, key)
Decrypt ==
    /\ cipher.tag = "Ok"
    /\ \E build \in Builds : decrypted' = StringCipher_decrypt(cipher, text, key, build)
    /\ UNCHANGED <<charset, text, key, cipher, encrypted, roundtrip, evars>>

\* cipher.decrypt(&encrypted, key) on the unwrapped result of encrypt
DecryptBack ==
    /\ cipher.tag = "Ok"
    /\ encrypted.tag = "Ok"
    /\ \E build \in Builds :
          roundtrip' = StringCipher_decrypt(cipher, encrypted.out, key, build)
    /\ UNCHANGED <<charset, text, key, cipher, encrypted, decrypted, evars>>

\* VigenereCipher::new(NonEmptyVec::try_from_vec(echarset).unwrap())
EngineNew ==
    /\ NonEmpty(echarset)
    /\ engine' = [tag |-> "Ok"] @@ VigenereCipher_new(echarset)
    /\ UNCHANGED <<echarset, einput, ekey, eencrypted, edecrypted, eroundtrip, tvars>>

\* engine.encrypt(&einput, NonEmptySliceRef::new(ekey).unwrap())
EngineEncrypt ==
    /\ engine.tag = "Ok"
    /\ NonEmpty(ekey)
    /\ \E build \in Builds :
          eencrypted' = VigenereCipher_encrypt(engine, einput, ekey, build)
    /\ UNCHANGED <<echarset, einput, ekey, engine, edecrypted, eroundtrip, tvars>>

\* engine.decrypt(&einput, NonEmptySliceRef::new(ekey).unwrap())
EngineDecrypt ==
    /\ engine.tag = "Ok"
    /\ NonEmpty(ekey)
    /\ \E build \in Builds :
          edecrypted' = VigenereCipher_decrypt(engine, einput, ekey, build)
    /\ UNCHANGED <<echarset, einput, ekey, engine, eencrypted, eroundtrip, tvars>>

\* engine.decrypt(&eencrypted, NonEmptySliceRef::new(ekey).unwrap())
EngineDecryptBack ==
    /\ engine.tag = "Ok"
    /\ NonEmpty(ekey)
    /\ eencrypted.tag = "Ok"
    /\ \E build \in Builds :
          eroundtrip' = VigenereCipher_decrypt(engine, eencrypted.out, ekey, build)
    /\ UNCHANGED <<echarset, einput, ekey, engine, eencrypted, edecrypted, tvars>>

Next == New \/ Encrypt \/ Decrypt \/ DecryptBack

NextEngine == EngineNew \/ EngineEncrypt \/ EngineDecrypt \/ EngineDecryptBack

NextAgree == New \/ Encrypt \/ Decrypt \/ EngineNew \/ EngineEncrypt \/ EngineDecrypt

Spec == Init /\ [][Next]_vars

SpecEngine == InitEngine /\ [][NextEngine]_vars

SpecAgree == InitAgree /\ [][NextAgree]_vars

----------------------------------------------------------------------------
(* Vocabulary of the properties, stated on the call arguments alone.       *)

\* The chars of a string.
CharsOf(s) == {s[i] : i \in DOMAIN s}

\* No char occurs twice in s.
DupFree(s) == \A i, j \in DOMAIN s : s[i] = s[j] => i = j

\* The zero-based position of char c in the duplicate-free string s.
PositionIn(s, c) == (CHOOSE i \in DOMAIN s : s[i] = c) - 1

\* The key is non-empty and made of charset chars only.
ValidKey == Len(key) > 0 /\ \A i \in DOMAIN key : key[i] \in CharsOf(charset)

\* The number of charset chars of string s strictly before position i.
CharsetCharsBefore(s, i) == Cardinality({p \in 1..(i - 1) : s[p] \in CharsOf(charset)})

\* The char the cipher must put at position i of the output for input s:
\* sign is 1 for encrypt and -1 for decrypt.
ExpectedChar(s, i, sign) ==
    IF s[i] \notin CharsOf(charset) THEN s[i]
    ELSE LET j == CharsetCharsBefore(s, i)
             k == key[(j % Len(key)) + 1]
         IN  charset[((PositionIn(charset, s[i]) + sign * PositionIn(charset, k))
                        % Len(charset)) + 1]

\* Some position of s holds a charset char and some other one does not.
Mixed(s) == /\ \E i \in DOMAIN s : s[i] \in CharsOf(charset)
            /\ \E i \in DOMAIN s : s[i] \notin CharsOf(charset)

----------------------------------------------------------------------------
(* Properties of the text wrapper, checked under Spec.                     *)

\* C5: StringCipher::new(s) fails with the empty-charset error exactly when
\* s has no chars, with the duplicate-charset error exactly when s is
\* non-empty and some char occurs twice in it, and succeeds otherwise.
C5_CharsetValidation ==
    cipher.tag # "None" =>
        /\ (cipher.tag = "Err" /\ cipher.err = "empty_charset") <=> Len(charset) = 0
        /\ (cipher.tag = "Err" /\ cipher.err = "duplicate_charset")
              <=> (Len(charset) > 0 /\ ~DupFree(charset))
        /\ cipher.tag = "Ok" <=> (Len(charset) > 0 /\ DupFree(charset))

\* A charset whose only repeat is between non-adjacent chars was rejected.
C5_Witness ==
    /\ cipher.tag = "Err"
    /\ cipher.err = "duplicate_charset"
    /\ Len(charset) = 3
    /\ charset[1] # charset[2]
    /\ charset[2] # charset[3]

\* The symbol set a successful StringCipher::new(s) leaves: modulus is the
\* number of chars of s and at least 1, the symbol at position i has index i
\* and the i-th char of s as its value, indices and values are pairwise
\* distinct and the indices lie in [0, modulus).
SymbolSetOf ==
    cipher.tag = "Ok" =>
        /\ cipher.modulus = Len(charset)
        /\ cipher.modulus >= 1
        /\ Len(cipher.charset) = cipher.modulus
        /\ \A i \in 1..Len(cipher.charset) :
              /\ cipher.charset[i].index = i - 1
              /\ cipher.charset[i].value = charset[i]
              /\ cipher.charset[i].index \in 0..(cipher.modulus - 1)
        /\ \A i, j \in 1..Len(cipher.charset) :
              i # j => /\ cipher.charset[i].index # cipher.charset[j].index
                       /\ cipher.charset[i].value # cipher.charset[j].value

\* C8: after every successful StringCipher::new the symbol set is as
\* SymbolSetOf says, and no later call (encrypt or decrypt, successful or
\* failing) changes the charset or the modulus.
C8_SymbolSetInvariant ==
    /\ []SymbolSetOf
    /\ [][cipher.tag = "Ok" => cipher' = cipher]_vars

\* A three-symbol cipher after an encrypt, a decrypt and a decrypt-back call.
C8_Witness ==
    /\ cipher.tag = "Ok"
    /\ cipher.modulus = 3
    /\ encrypted.tag = "Ok"
    /\ decrypted.tag = "Ok"
    /\ roundtrip.tag = "Ok"

\* What a call with the current key must have returned, r being its result.
KeyChecked(r) ==
    r.tag # "None" =>
        IF Len(key) = 0
        THEN r = [tag |-> "Err", err |-> "empty_key"]
        ELSE IF \E i \in DOMAIN key : key[i] \notin CharsOf(charset)
        THEN r = [tag |-> "Err", err |-> "invalid_key_char",
                  ch |-> key[Min({i \in DOMAIN key : key[i] \notin CharsOf(charset)})]]
        ELSE r.tag = "Ok"

\* C4: for every text, encrypt and decrypt return the empty-key error on an
\* empty key, the invalid-key-character error naming the first key char
\* outside the charset on a non-empty key holding one, and Ok otherwise; an
\* error carries no output.
C4_KeyValidation ==
    /\ KeyChecked(encrypted)
    /\ KeyChecked(decrypted)
    /\ KeyChecked(roundtrip)

\* Both calls rejected a key of two different chars outside the charset, on
\* a text that holds a charset char.
C4_Witness ==
    /\ encrypted.tag = "Err"
    /\ encrypted.err = "invalid_key_char"
    /\ decrypted.tag = "Err"
    /\ Len(key) = 2
    /\ key[1] # key[2]
    /\ key[1] \notin CharsOf(charset)
    /\ key[2] \notin CharsOf(charset)
    /\ \E i \in DOMAIN text : text[i] \in CharsOf(charset)

\* The output r of a call on input s is s with every charset char shifted
\* by the key char under the cursor, the cursor being the number of charset
\* chars before the position, and every other char copied.
Shifted(r, s, sign) ==
    r.tag = "Ok" =>
        /\ Len(r.out) = Len(s)
        /\ \A i \in DOMAIN s :
              /\ r.out[i] = ExpectedChar(s, i, sign)
              /\ r.steps[i].key_index = CharsetCharsBefore(s, i)

\* C3: with a valid key, encrypt (decrypt) copies every char outside the
\* charset and replaces a charset char at position i by
\* charset[(index(text[i]) + index(key[j mod len(key)])) mod modulus] (minus
\* for decrypt), j being the number of charset chars before i: the key
\* cursor starts at 0 and advances on charset chars only.
C3_PassThrough ==
    /\ Shifted(encrypted, text, 1)
    /\ Shifted(decrypted, text, -1)

\* A text whose first char is outside the charset and whose second is
\* inside, under a key of two different chars, was encrypted and decrypted.
C3_Witness ==
    /\ encrypted.tag = "Ok"
    /\ decrypted.tag = "Ok"
    /\ Len(text) = 2
    /\ text[1] \notin CharsOf(charset)
    /\ text[2] \in CharsOf(charset)
    /\ Len(key) = 2
    /\ key[1] # key[2]
    /\ encrypted.out[2] # text[2]
    /\ encrypted.out[2] # decrypted.out[2]

\* The result r of a call on input s has one output char per char of s, in
\* the order of s.
SameLength(r, s) ==
    r.tag = "Ok" =>
        /\ Len(r.out) = Len(s)
        /\ Len(r.steps) = Len(s)
        /\ \A i \in DOMAIN s : r.steps[i].ch = s[i] /\ r.out[i] = r.steps[i].out

\* C6: the result of encrypt(text, key) and of decrypt(text, key) has
\* exactly as many chars as text, one per input char in input order.
C6_LengthPreservation ==
    /\ SameLength(encrypted, text)
    /\ SameLength(decrypted, text)
    /\ encrypted.tag = "Ok" => SameLength(roundtrip, encrypted.out)

\* A two-char text mixing a charset char and a pass-through char went
\* through encrypt and decrypt.
C6_Witness ==
    /\ encrypted.tag = "Ok"
    /\ decrypted.tag = "Ok"
    /\ Len(text) = 2
    /\ Mixed(text)
    /\ Len(encrypted.out) = 2

\* Every iteration of the call that returned r stayed in range.
InRange(r) ==
    r.tag \notin {"None", "Err"} =>
        /\ r.tag = "Ok"
        /\ \A i \in DOMAIN r.steps :
              LET st == r.steps[i]
              IN  IF st.member
                  THEN /\ st.fault = "none"
                       /\ st.modulus # 0
                       /\ st.key_len > 0
                       /\ st.raw >= 0
                       /\ st.new_index \in 0..(st.modulus - 1)
                       /\ st.ch \in CharsOf(charset)
                       /\ st.out \in CharsOf(charset)
                  ELSE /\ st.ch \notin CharsOf(charset)
                       /\ st.out \notin CharsOf(charset)

\* C10: during encrypt and decrypt of a constructed StringCipher the
\* modulus is non-zero, the key-symbol list is non-empty, the decrypt
\* expression index(c) + modulus - index(k) is never negative and every
\* new_index lies in [0, modulus); an output char is a charset char exactly
\* at the positions of charset chars of the input.
C10_IndexInRange ==
    /\ cipher.tag = "Ok" => cipher.modulus # 0
    /\ InRange(encrypted)
    /\ InRange(decrypted)
    /\ InRange(roundtrip)

\* A decrypt whose char index is smaller than the key index, so that the
\* subtraction relies on the added modulus.
C10_Witness ==
    /\ decrypted.tag = "Ok"
    /\ \E i \in DOMAIN decrypted.steps :
          /\ decrypted.steps[i].member
          /\ decrypted.steps[i].elem_index < decrypted.steps[i].key_elem_index
          /\ decrypted.steps[i].raw < decrypted.steps[i].modulus

\* C2: with a key that is non-empty and made of charset chars, for every
\* text (with or without chars outside the charset) encrypt(text, key)
\* succeeds with some c and decrypt(c, key) succeeds and returns text.
C2_RoundTrip ==
    (cipher.tag = "Ok" /\ ValidKey) =>
        /\ encrypted.tag # "None" => encrypted.tag = "Ok"
        /\ roundtrip.tag # "None" => roundtrip.tag = "Ok" /\ roundtrip.out = text

\* A text mixing charset and other chars came back from a round trip under
\* a three-char charset, its ciphertext differing from it.
C2_Witness ==
    /\ roundtrip.tag = "Ok"
    /\ Len(charset) = 3
    /\ Len(text) = 2
    /\ Mixed(text)
    /\ encrypted.out # text
    /\ roundtrip.out = text

----------------------------------------------------------------------------
(* Properties of the generic engine, checked under SpecEngine.             *)

\* The symbols of the set cs carry the indices 0..modulus-1 in position order.
WellFormed(cs) == \A i \in DOMAIN cs : cs[i].index = i - 1

\* Every element of the sequence m is a symbol of the set cs.
DrawnFrom(cs, m) == \A i \in DOMAIN m : \E j \in DOMAIN cs : cs[j] = m[i]

\* C1: for an engine built from a symbol set whose indices match the
\* positions, every sequence M of its symbols (the empty one included) and
\* every non-empty key K of its symbols, decrypt(encrypt(M, K), K) equals M
\* element by element.
C1_InverseLaw ==
    (/\ engine.tag = "Ok"
     /\ WellFormed(echarset)
     /\ DrawnFrom(echarset, einput)
     /\ DrawnFrom(echarset, ekey)
     /\ NonEmpty(ekey)) =>
        /\ eencrypted.tag # "None" => eencrypted.tag = "Ok"
        /\ eroundtrip.tag # "None" =>
              /\ eroundtrip.tag = "Ok"
              /\ Len(eroundtrip.out) = Len(einput)
              /\ \A i \in DOMAIN einput : eroundtrip.out[i] = einput[i]

\* Two symbols of a three-symbol set came back from a round trip under a
\* two-symbol key, the ciphertext differing from them at both positions.
C1_Witness ==
    /\ eroundtrip.tag = "Ok"
    /\ Len(echarset) = 3
    /\ WellFormed(echarset)
    /\ DrawnFrom(echarset, einput)
    /\ DrawnFrom(echarset, ekey)
    /\ Len(einput) = 2
    /\ Len(ekey) = 2
    /\ ekey[1] # ekey[2]
    /\ eencrypted.out[1] # einput[1]
    /\ eencrypted.out[2] # einput[2]
    /\ eroundtrip.out = einput

\* The engine call that returned r on input m computed every new_index in
\* [0, modulus) without wrapping and returned symbols of the set, one per
\* input element.
NoFailure(r, m) ==
    r.tag # "None" =>
        /\ r.tag = "Ok"
        /\ Len(r.out) = Len(m)
        /\ \A i \in DOMAIN r.steps :
              /\ r.steps[i].fault = "none"
              /\ r.steps[i].raw >= 0
              /\ r.steps[i].new_index \in 0..(engine.modulus - 1)
              /\ \E j \in DOMAIN echarset : echarset[j] = r.out[i]

\* C7: the generic engine has no failure modes: for every input sequence
\* and non-empty key of elements the types admit, encrypt and decrypt
\* compute each new_index in [0, modulus), the decrypt subtraction never
\* goes below zero, and a sequence of symbols of the set as long as the
\* input is returned.
C7_NoFailureModes ==
    /\ NoFailure(eencrypted, einput)
    /\ NoFailure(edecrypted, einput)

----------------------------------------------------------------------------
(* The two layers side by side, checked under SpecAgree.                   *)

\* The values of a sequence of symbols.
Values(elems) == [i \in DOMAIN elems |-> elems[i].value]

\* C9: for a duplicate-free non-empty charset s, a non-empty key over s and
\* a text of chars of s, StringCipher::new(s).encrypt(text, key) is the
\* string of values of VigenereCipher(symbols of s).encrypt(symbols of text,
\* symbols of key), and the same for decrypt.
C9_WrapperAgreesWithEngine ==
    (/\ cipher.tag = "Ok"
     /\ engine.tag = "Ok"
     /\ echarset = Symbols(charset)
     /\ einput = SymbolsOf(echarset, text)
     /\ ekey = SymbolsOf(echarset, key)
     /\ NonEmpty(key)) =>
        /\ (encrypted.tag # "None" /\ eencrypted.tag # "None") =>
              /\ encrypted.tag = "Ok"
              /\ eencrypted.tag = "Ok"
              /\ encrypted.out = Values(eencrypted.out)
        /\ (decrypted.tag # "None" /\ edecrypted.tag # "None") =>
              /\ decrypted.tag = "Ok"
              /\ edecrypted.tag = "Ok"
              /\ decrypted.out = Values(edecrypted.out)

\* Both layers encrypted and decrypted a two-char text under a three-char
\* charset and a two-char key, encryption and decryption giving different
\* strings.
C9_Witness ==
    /\ encrypted.tag = "Ok"
    /\ eencrypted.tag = "Ok"
    /\ decrypted.tag = "Ok"
    /\ edecrypted.tag = "Ok"
    /\ Len(charset) = 3
    /\ Len(text) = 2
    /\ Len(key) = 2
    /\ key[1] # key[2]
    /\ encrypted.out # text
    /\ encrypted.out # decrypted.out

====
